---------------------------- MODULE Spec2Model ----------------------------
(***************************************************************************)
(* A model of DonorAtlas/trial_helpers: the SERP aggregation pipeline of   *)
(* serp.py (fetch_serper, fetch_serper_batch_by_limit,                     *)
(* get_in_factor_order, serp_and_process), the rate limiting that the      *)
(* decorators of fetch_serper apply, and call_llm of llm.py.               *)
(*                                                                         *)
(* Python lists are sequences (1-based here, 0-based in the source),       *)
(* Python dicts are functions whose DOMAIN is the set of keys present.     *)
(***************************************************************************)
EXTENDS Integers, Sequences, FiniteSets, TLC

VARIABLES
    \* get_in_factor_order applied to an input (SpecInterlace)
    lists, result, ipc,
    \* fetch_serper applied to a provider response (SpecFetch)
    response, num_sites, sites, fpc,
    \* serp_and_process (Spec)
    search_queries, num_sites_per_query, encoded_queries, results, calls,
    printed, interlaced_sites, deduped_sites, qidx, pc,
    \* the rate limiter around fetch_serper (SpecLimit)
    elapsed, num_calls, lpc, sleep_left, issued, retried, quota_error,
    \* call_llm (SpecLlm)
    schema, content, http_ok, payload_format, returned, mpc, ncalls

ivars == <<lists, result, ipc>>
fvars == <<response, num_sites, sites, fpc>>
svars == <<search_queries, num_sites_per_query, encoded_queries, results,
           calls, printed, interlaced_sites, deduped_sites, qidx, pc>>
lvars == <<elapsed, num_calls, lpc, sleep_left, issued, retried, quota_error>>
mvars == <<schema, content, http_ok, payload_format, returned, mpc, ncalls>>
vars == <<ivars, fvars, svars, lvars, mvars>>

-----------------------------------------------------------------------------
(* Bounds of the model.                                                    *)

\* longest list of queries handed to serp_and_process
MaxQueries == 2
\* longest organic array a provider response carries
MaxOrganic == 2
\* largest num_sites_per_query tried
MaxSites == 2
\* most lists, and longest list, handed to get_in_factor_order
MaxLists == 2
MaxLen == 2
\* clock ticks per second (the resolution of time in the limiter model)
TicksPerSecond == 2
\* successive call_llm invocations
MaxLlmCalls == 3

-----------------------------------------------------------------------------
(* Python helpers.                                                         *)

Min(a, b) == IF a < b THEN a ELSE b
Max(a, b) == IF a > b THEN a ELSE b

\* dict.get(key, default)
Get(d, key, default) == IF key \in DOMAIN d THEN d[key] ELSE default

\* (mutant) seq[:n + 1]
SliceToInclusive(seq, n) ==
    LET stop == IF n + 1 >= 0 THEN Min(n + 1, Len(seq))
                ELSE Max(Len(seq) + n + 1, 0)
    IN  SubSeq(seq, 1, stop)

\* seq[:n], for any integer n (a negative n drops the last -n elements)
SliceTo(seq, n) ==
    LET stop == IF n >= 0 THEN Min(n, Len(seq)) ELSE Max(Len(seq) + n, 0)
    IN  SubSeq(seq, 1, stop)

\* All sequences over S of length 0..n
SeqUpTo(S, n) == UNION {[1..k -> S] : k \in 0..n}

-----------------------------------------------------------------------------
(* SerpedSite and the provider's raw records.                              *)

NoneValue == "None"

\* SerpedSite(url=, title=, snippet=, source=); rich_snippet keeps its default
SerpedSite(url, title, snippet, source) ==
    [url |-> url, title |-> title, snippet |-> snippet,
     rich_snippet |-> NoneValue, source |-> source]

\* Raw entries of the provider's organic array: two carry the same link,
\* some lack the optional keys.
RawEntries ==
    { [link |-> "u1", title |-> "t1", snippet |-> "s1", source |-> "p1"],
      [link |-> "u1", title |-> "t2"],
      [link |-> "u2", title |-> "t1", snippet |-> "s2"] }

\* the body of the loop of fetch_serper
SiteOf(site_data) ==
    SerpedSite(Get(site_data, "link", ""),
               Get(site_data, "title", ""),
               IF "snippet" \in DOMAIN site_data
                  THEN Get(site_data, "snippet", "") ELSE "",
               Get(site_data, "source", ""))

-----------------------------------------------------------------------------
(* get_in_factor_order                                                     *)

RECURSIVE MaxLenFrom(_, _)
MaxLenFrom(ls, j) ==
    IF j > Len(ls) THEN 0 ELSE Max(Len(ls[j]), MaxLenFrom(ls, j + 1))

RECURSIVE MinLenFrom(_, _)
MinLenFrom(ls, j) ==
    IF j > Len(ls) THEN 0
    ELSE IF j = Len(ls) THEN Len(ls[j])
    ELSE Min(Len(ls[j]), MinLenFrom(ls, j + 1))

\* (mutant) the rounds stop at the shortest list, as zip() would
max_len_shortest(ls) == MinLenFrom(ls, 1)

\* max(len(lst) for lst in lists) if lists else 0
max_len(ls) == IF Len(ls) > 0 THEN MaxLenFrom(ls, 1) ELSE 0

\* for lst in lists: if i < len(lst): result.append(lst[i])
RECURSIVE InnerLoop(_, _, _, _)
InnerLoop(ls, i, j, acc) ==
    IF j > Len(ls) THEN acc
    ELSE InnerLoop(ls, i, j + 1,
                   IF i <= Len(ls[j]) THEN Append(acc, ls[j][i]) ELSE acc)

\* for i in range(max_len): ...
RECURSIVE OuterLoop(_, _, _, _)
OuterLoop(ls, i, n, acc) ==
    IF i > n THEN acc ELSE OuterLoop(ls, i + 1, n, InnerLoop(ls, i, 1, acc))

RECURSIVE Concat(_, _)
Concat(ls, j) == IF j > Len(ls) THEN <<>> ELSE ls[j] \o Concat(ls, j + 1)

\* (mutant) the two loops swapped: list after list
get_in_factor_order_chained(ls) == Concat(ls, 1)

get_in_factor_order(ls) == OuterLoop(ls, 1, max_len(ls), <<>>)

-----------------------------------------------------------------------------
(* fetch_serper                                                            *)

\* What session.post / raise_for_status / response.json() can raise.
RequestErrors == {"ConnectionError", "HTTPError"}
ErrorKinds == RequestErrors \cup {"JSONDecodeError"}

\* Organic arrays of at most n raw entries, and those that rank each entry
\* at most once (two entries may still carry the same link).
Organics(n) == SeqUpTo(RawEntries, n)
Rankings(n) ==
    {o \in Organics(n) : \A a, b \in 1..Len(o) : a # b => o[a] # o[b]}

\* A provider response: kind says how far the call gets; the JSON body of a
\* successful one comes with or without "organic".
ResponsesOver(organics) ==
    {[kind |-> k, data |-> [message |-> k]] : k \in ErrorKinds}
        \cup {[kind |-> "ok", data |-> [searchParameters |-> "q"]]}
        \cup {[kind |-> "ok",
               data |-> [searchParameters |-> "q", organic |-> o]] :
                  o \in organics}

\* What a call gives its caller: a value, or an exception.
Returns(value) == [is_exception |-> FALSE, value |-> value, error |-> ""]
Raises(kind) == [is_exception |-> TRUE, value |-> <<>>, error |-> kind]

\* the body of fetch_serper, given what the provider answers
fetch_serper(resp, n) ==
    IF resp.kind # "ok" THEN Raises(resp.kind)
    ELSE LET organic == SliceTo(Get(resp.data, "organic", <<>>), n)
         IN  Returns([k \in 1..Len(organic) |-> SiteOf(organic[k])])

-----------------------------------------------------------------------------
(* fetch_serper_batch_by_limit                                             *)

\* (mutant) except requests.RequestException
except_RequestException(kind) == kind \in RequestErrors

\* except Exception: every error fetch_serper raises is an Exception
except_Exception(kind) == kind \in ErrorKinds

\* one iteration of the loop: the try/except around fetch_serper.
\* propagated: the exception was not caught and leaves the function.
batch_iteration(res, out) ==
    IF ~out.is_exception
       THEN [results |-> Append(res, out), propagated |-> FALSE]
    ELSE IF except_Exception(out.error)
       THEN [results |-> Append(res, out), propagated |-> FALSE]
    ELSE [results |-> res, propagated |-> TRUE]

-----------------------------------------------------------------------------
(* serp_and_process                                                        *)

\* urllib.parse.quote_plus on one character: letters stay, a space becomes
\* "+", a reserved character becomes its percent escape.
QuoteChar(c) ==
    CASE c = " " -> <<"+">>
      [] c = "&" -> <<"%", "2", "6">>
      [] c = "+" -> <<"%", "2", "B">>
      [] OTHER -> <<c>>

RECURSIVE QuoteFrom(_, _)
QuoteFrom(text, k) ==
    IF k > Len(text) THEN <<>>
    ELSE QuoteChar(text[k]) \o QuoteFrom(text, k + 1)

\* urllib.parse.quote_plus(query); a text is its sequence of characters
quote_plus(text) == QuoteFrom(text, 1)

\* The query texts tried: plain, with a space, with a reserved character.
QueryTexts == { <<"a", " ", "b">>, <<"c", "&", "d">> }

\* (mutant) the diagnostic names the encoded query
Diagnostic_encoded(queries, idx, res) ==
    [query |-> quote_plus(queries[idx]), error |-> res.error]

\* print(f"The search query '{search_queries[idx]}' failed. Error: ...")
Diagnostic(queries, idx, res) ==
    [query |-> queries[idx], error |-> res.error]

\* the lines printed by the loop over enumerate(results)
RECURSIVE Printed(_, _, _)
Printed(queries, res, idx) ==
    IF idx > Len(res) THEN <<>>
    ELSE (IF res[idx].is_exception
             THEN <<Diagnostic(queries, idx, res[idx])>> ELSE <<>>)
         \o Printed(queries, res, idx + 1)

RECURSIVE FetchedFrom(_, _)
FetchedFrom(res, idx) ==
    IF idx > Len(res) THEN <<>>
    ELSE (IF res[idx].is_exception THEN <<>> ELSE <<res[idx].value>>)
         \o FetchedFrom(res, idx + 1)

RECURSIVE FetchedReversedFrom(_, _)
FetchedReversedFrom(res, idx) ==
    IF idx > Len(res) THEN <<>>
    ELSE FetchedReversedFrom(res, idx + 1)
         \o (IF res[idx].is_exception THEN <<>> ELSE <<res[idx].value>>)

\* (mutant) fetched_sites_lists.insert(0, result)
fetched_sites_lists_reversed(res) == FetchedReversedFrom(res, 1)

\* fetched_sites_lists after the loop over enumerate(results)
fetched_sites_lists(res) == FetchedFrom(res, 1)

\* the deduplication loop: seen is the set of urls, acc the survivors
RECURSIVE DedupLoop(_, _, _, _)
DedupLoop(seq, k, seen, acc) ==
    IF k > Len(seq) THEN acc
    ELSE IF seq[k].url \notin seen
       THEN DedupLoop(seq, k + 1, seen \cup {seq[k].url}, Append(acc, seq[k]))
    ELSE DedupLoop(seq, k + 1, seen, acc)

RECURSIVE DedupWholeLoop(_, _, _, _)
DedupWholeLoop(seq, k, seen, acc) ==
    IF k > Len(seq) THEN acc
    ELSE IF seq[k] \notin seen
       THEN DedupWholeLoop(seq, k + 1, seen \cup {seq[k]}, Append(acc, seq[k]))
    ELSE DedupWholeLoop(seq, k + 1, seen, acc)

\* (mutant) the key is the whole site, not its url
deduplicate_by_site(seq) == DedupWholeLoop(seq, 1, {}, <<>>)

deduplicate(seq) == DedupLoop(seq, 1, {}, <<>>)

-----------------------------------------------------------------------------
(* The parts of the state a specification leaves alone.                    *)

IdleInterlace == lists = <<>> /\ result = <<>> /\ ipc = "idle"
IdleFetch ==
    /\ response = [kind |-> "ok", data |-> [searchParameters |-> "q"]]
    /\ num_sites = 0 /\ sites = Returns(<<>>) /\ fpc = "idle"
IdleSerp ==
    /\ search_queries = <<>> /\ num_sites_per_query = 0
    /\ encoded_queries = <<>> /\ results = <<>> /\ calls = <<>>
    /\ printed = <<>> /\ interlaced_sites = <<>> /\ deduped_sites = <<>>
    /\ qidx = 0 /\ pc = "idle"
IdleLimit ==
    /\ elapsed = 0 /\ num_calls = 0 /\ lpc = "off" /\ sleep_left = 0
    /\ issued = <<>> /\ retried = FALSE /\ quota_error = FALSE
IdleLlm ==
    /\ schema = [is_none |-> TRUE, keys |-> {}] /\ content = ""
    /\ http_ok = TRUE /\ payload_format = ""
    /\ returned = Returns([type |-> "str", text |-> ""])
    /\ mpc = "off" /\ ncalls = 0

-----------------------------------------------------------------------------
(* SpecInterlace: get_in_factor_order applied to every small input.        *)

\* The elements interlaced: sites by two urls, one url under two titles.
Elements == {SiteOf(e) : e \in RawEntries}

\* The docstring's example, [[a, b], [c, d, e]], over five distinct sites.
ExampleSite(name) == SerpedSite(name, name, "", "")
ExampleLists ==
    << <<ExampleSite("a"), ExampleSite("b")>>,
       <<ExampleSite("c"), ExampleSite("d"), ExampleSite("e")>> >>

InitInterlace ==
    /\ lists \in SeqUpTo(SeqUpTo(Elements, MaxLen), MaxLists) \cup {ExampleLists}
    /\ result = <<>>
    /\ ipc = "call"
    /\ IdleFetch /\ IdleSerp /\ IdleLimit /\ IdleLlm

Interlace ==
    /\ ipc = "call"
    /\ result' = get_in_factor_order(lists)
    /\ ipc' = "returned"
    /\ UNCHANGED <<lists, fvars, svars, lvars, mvars>>

NextInterlace == Interlace
SpecInterlace == InitInterlace /\ [][NextInterlace]_vars

-----------------------------------------------------------------------------
(* SpecFetch: fetch_serper applied to every small provider response.       *)

InitFetch ==
    /\ response \in ResponsesOver(Organics(MaxOrganic + 1))
    /\ num_sites \in -1..MaxSites
    /\ sites = Returns(<<>>)
    /\ fpc = "call"
    /\ IdleInterlace /\ IdleSerp /\ IdleLimit /\ IdleLlm

Fetch ==
    /\ fpc = "call"
    /\ sites' = fetch_serper(response, num_sites)
    /\ fpc' = "returned"
    /\ UNCHANGED <<response, num_sites, ivars, svars, lvars, mvars>>

NextFetch == Fetch
SpecFetch == InitFetch /\ [][NextFetch]_vars

-----------------------------------------------------------------------------
(* Spec: serp_and_process, one provider answer per query.                  *)

Init ==
    /\ search_queries \in SeqUpTo(QueryTexts, MaxQueries)
    /\ num_sites_per_query \in 0..MaxSites
    /\ encoded_queries = <<>> /\ results = <<>> /\ calls = <<>>
    /\ printed = <<>> /\ interlaced_sites = <<>> /\ deduped_sites = <<>>
    /\ qidx = 0
    /\ pc = "start"
    /\ IdleInterlace /\ IdleFetch /\ IdleLimit /\ IdleLlm

\* encoded_queries = [urllib.parse.quote_plus(query) for query in search_queries]
Encode ==
    /\ pc = "start"
    /\ encoded_queries' =
           [k \in 1..Len(search_queries) |-> quote_plus(search_queries[k])]
    /\ qidx' = 1
    /\ pc' = "batch"
    /\ UNCHANGED <<search_queries, num_sites_per_query, results, calls,
                   printed, interlaced_sites, deduped_sites,
                   ivars, fvars, lvars, mvars>>

\* One iteration of the loop of fetch_serper_batch_by_limit: the provider
\* answers the query at qidx; calls records what fetch_serper was given and
\* what it gave back.
FetchQuery ==
    /\ pc = "batch"
    /\ qidx <= Len(encoded_queries)
    /\ \E resp \in ResponsesOver(Rankings(MaxOrganic)) :
         LET out == fetch_serper(resp, num_sites_per_query)
             step == batch_iteration(results, out)
         IN  /\ calls' = Append(calls, [query |-> encoded_queries[qidx],
                                        outcome |-> out])
             /\ results' = step.results
             /\ pc' = IF step.propagated THEN "raised" ELSE "batch"
    /\ qidx' = qidx + 1
    /\ UNCHANGED <<search_queries, num_sites_per_query, encoded_queries,
                   printed, interlaced_sites, deduped_sites,
                   ivars, fvars, lvars, mvars>>

\* The batch returns; serp_and_process partitions, interlaces, deduplicates.
Process ==
    /\ pc = "batch"
    /\ qidx > Len(encoded_queries)
    /\ printed' = Printed(search_queries, results, 1)
    /\ LET fetched == fetched_sites_lists(results)
       IN  IF Len(fetched) > 0
              THEN /\ interlaced_sites' = get_in_factor_order(fetched)
                   /\ deduped_sites' = deduplicate(get_in_factor_order(fetched))
              ELSE /\ interlaced_sites' = <<>>
                   /\ deduped_sites' = <<>>
    /\ pc' = "done"
    /\ UNCHANGED <<search_queries, num_sites_per_query, encoded_queries,
                   results, calls, qidx, ivars, fvars, lvars, mvars>>

Next == Encode \/ FetchQuery \/ Process
Spec == Init /\ [][Next]_vars

-----------------------------------------------------------------------------
(* What the claims speak of.                                               *)

\* The places (position i, list j) of a list of lists, and the number of
\* places visited up to and including a place when positions are visited
\* in order and, at each position, the lists in their given order.
Places(ls) == UNION {{<<i, j>> : i \in 1..Len(ls[j])} : j \in 1..Len(ls)}
Rank(ls, p) ==
    Cardinality({q \in Places(ls) :
                    q[1] < p[1] \/ (q[1] = p[1] /\ q[2] <= p[2])})
IsRoundRobin(out, ls) ==
    /\ Len(out) = Cardinality(Places(ls))
    /\ \A p \in Places(ls) : out[Rank(ls, p)] = ls[p[2]][p[1]]
\* the sequence that holds, at each rank, the element of the place of
\* that rank
RoundRobin(ls) ==
    [n \in 1..Cardinality(Places(ls)) |->
        LET p == CHOOSE q \in Places(ls) : Rank(ls, q) = n
        IN  ls[p[2]][p[1]]]

RECURSIVE SumLen(_, _)
SumLen(ls, j) == IF j > Len(ls) THEN 0 ELSE Len(ls[j]) + SumLen(ls, j + 1)

\* sub occurs in seq, in order: some strictly increasing choice of
\* positions of seq spells sub
RECURSIVE IsSubsequence(_, _)
IsSubsequence(sub, seq) ==
    IF Len(sub) = 0 THEN TRUE
    ELSE IF Len(seq) = 0 THEN FALSE
    ELSE IF Head(sub) = Head(seq) THEN IsSubsequence(Tail(sub), Tail(seq))
    ELSE IsSubsequence(sub, Tail(seq))

\* the first position of seq that carries url
FirstWith(seq, url) ==
    CHOOSE k \in 1..Len(seq) :
        seq[k].url = url /\ \A m \in 1..(k - 1) : seq[m].url # url
IsFirstOccurrences(out, seq) ==
    /\ \A a, b \in 1..Len(out) : a # b => out[a].url # out[b].url
    /\ {out[a].url : a \in 1..Len(out)} = {seq[k].url : k \in 1..Len(seq)}
    /\ \A a \in 1..Len(out) : out[a] = seq[FirstWith(seq, out[a].url)]
    /\ \A a, b \in 1..Len(out) :
          a < b => FirstWith(seq, out[a].url) < FirstWith(seq, out[b].url)

\* the result lists of the queries whose fetch succeeded, in query order
Succeeded == SelectSeq(calls, LAMBDA c : ~c.outcome.is_exception)
SucceededLists == [k \in 1..Len(Succeeded) |-> Succeeded[k].outcome.value]
\* the positions of the queries whose fetch failed
FailedAt == {k \in 1..Len(calls) : calls[k].outcome.is_exception}

\* C1: the list serp_and_process returns holds no two elements of the same
\* url, and holds, in the order of the interlaced sequence, the first element
\* of each url of that sequence.
C1_DedupFirstOccurrence ==
    pc = "done" => IsFirstOccurrences(deduped_sites, interlaced_sites)
C1_Witness ==
    /\ pc = "done"
    /\ Len(deduped_sites) >= 2
    /\ Len(deduped_sites) < Len(interlaced_sites)

\* C2: fetch_serper_batch_by_limit never raises and gives one outcome per
\* query, in the queries' order: the outcome at a position is what the fetch
\* of that position's query gave, a failure where it failed, and every query
\* is fetched whatever the earlier ones did.
C2_OneOutcomePerQuery ==
    /\ pc # "raised"
    /\ Len(results) = Len(calls)
    /\ \A k \in 1..Len(calls) :
          /\ calls[k].query = encoded_queries[k]
          /\ results[k].is_exception = calls[k].outcome.is_exception
          /\ results[k] = calls[k].outcome
    /\ pc = "done" => Len(results) = Len(encoded_queries)
C2_Witness ==
    /\ pc = "done"
    /\ Len(results) = 2
    /\ results[1].is_exception /\ results[1].error = "JSONDecodeError"
    /\ ~results[2].is_exception /\ Len(results[2].value) > 0

\* C3: whatever queries fail, serp_and_process does not raise and returns
\* the deduplicated round-robin merge of the result lists of the queries
\* that succeeded, in query order; it returns the empty list when all fail.
C3_PartialFailure ==
    /\ pc # "raised"
    /\ pc = "done" =>
          /\ IsFirstOccurrences(deduped_sites, RoundRobin(SucceededLists))
          /\ Len(Succeeded) = 0 => deduped_sites = <<>>
C3_Witness ==
    /\ pc = "done"
    /\ Len(calls) = 2
    /\ calls[1].outcome.is_exception
    /\ ~calls[2].outcome.is_exception
    /\ Len(deduped_sites) > 0
C3_WitnessAllFail ==
    /\ pc = "done"
    /\ Len(calls) = 2
    /\ \A k \in 1..2 : calls[k].outcome.is_exception
    /\ deduped_sites = <<>>

\* C4: get_in_factor_order is the round-robin merge by position, gives
\* [a, c, b, d, e] for [[a, b], [c, d, e]] and the empty list for no lists
\* or only empty lists.
C4_RoundRobin ==
    ipc = "returned" =>
        /\ IsRoundRobin(result, lists)
        /\ lists = ExampleLists =>
              result = <<ExampleSite("a"), ExampleSite("c"), ExampleSite("b"),
                         ExampleSite("d"), ExampleSite("e")>>
        /\ (\A j \in 1..Len(lists) : Len(lists[j]) = 0) => result = <<>>
C4_Witness ==
    /\ ipc = "returned"
    /\ lists = ExampleLists
    /\ Len(result) = 5

\* C5: for non-empty lists, the output of get_in_factor_order is as long as
\* the lists together and keeps the elements of each list in their order.
C5_LengthAndOrder ==
    (ipc = "returned" /\ \A j \in 1..Len(lists) : Len(lists[j]) > 0) =>
        /\ Len(result) = SumLen(lists, 1)
        /\ \A j \in 1..Len(lists) : IsSubsequence(lists[j], result)
C5_Witness ==
    /\ ipc = "returned"
    /\ Len(lists) = 2
    /\ Len(lists[1]) = 2 /\ Len(lists[2]) = 1
    /\ lists[1][1] # lists[1][2]
    /\ Len(result) = 3

\* C6: a fetch_serper call that succeeds, with max_results N >= 0 and M
\* entries in the response's organic array (none when the key is absent),
\* returns min(M, N) sites: the first min(M, N) entries, in provider order.
C6_ResultCount ==
    (fpc = "returned" /\ response.kind = "ok" /\ num_sites >= 0) =>
        LET organic == IF "organic" \in DOMAIN response.data
                          THEN response.data.organic ELSE <<>>
            M == Len(organic)
            K == IF M < num_sites THEN M ELSE num_sites
        IN  /\ ~sites.is_exception
            /\ Len(sites.value) = K
            /\ \A k \in 1..K :
                  /\ sites.value[k].url = organic[k].link
                  /\ sites.value[k].title = organic[k].title
C6_Witness ==
    /\ fpc = "returned" /\ response.kind = "ok"
    /\ "organic" \in DOMAIN response.data
    /\ num_sites >= 1
    /\ Len(response.data.organic) > num_sites
    /\ Len(sites.value) = num_sites
C6_WitnessFewer ==
    /\ fpc = "returned" /\ response.kind = "ok"
    /\ "organic" \notin DOMAIN response.data
    /\ num_sites >= 1
    /\ sites = Returns(<<>>)

\* C10: serp_and_process prints one diagnostic per failed query and none
\* for the others; the diagnostic of the failure at a position names the
\* text of search_queries at that position, as given, not URL-encoded.
C10_DiagnosticPerFailure ==
    pc = "done" =>
        /\ Len(printed) = Cardinality(FailedAt)
        /\ \A k \in FailedAt :
              LET nth == Cardinality({m \in FailedAt : m <= k})
              IN  /\ printed[nth].query = search_queries[k]
                  /\ printed[nth].error = calls[k].outcome.error
C10_Witness ==
    /\ pc = "done"
    /\ Len(calls) = 2
    /\ ~calls[1].outcome.is_exception
    /\ calls[2].outcome.is_exception
    /\ Len(printed) = 1
    /\ printed[1].query = search_queries[2]
    /\ printed[1].query # encoded_queries[2]

-----------------------------------------------------------------------------
(* SpecLimit: @sleep_and_retry @limits(calls=MAX_CALLS, period=PERIOD)     *)
(* around fetch_serper, called again and again by one thread.              *)
(*                                                                         *)
(* The decorators are those of the ratelimit package: limits keeps         *)
(* last_reset and num_calls; a call first computes                         *)
(* period_remaining = period - (clock() - last_reset), resets num_calls    *)
(* and last_reset when that is <= 0, counts itself, and raises             *)
(* RateLimitException(period_remaining) when the count exceeds the quota;  *)
(* sleep_and_retry catches that exception, sleeps period_remaining and     *)
(* calls again.  Time is counted in ticks; elapsed is clock() - last_reset *)
(* and stops growing at the period, beyond which only its sign is read.    *)

MAX_CALLS == 10
PERIOD == 1
PeriodTicks == PERIOD * TicksPerSecond

\* (mutant) the quota is tested before the call counts itself
limits_test_first(el, n) ==
    LET period_remaining == PeriodTicks - el
        reset == period_remaining <= 0
        before == IF reset THEN 0 ELSE n
    IN  [elapsed |-> IF reset THEN 0 ELSE el,
         num_calls |-> before + 1,
         raised |-> before > MAX_CALLS,
         period_remaining |-> period_remaining]

\* one pass through the wrapper of limits, up to the call of the function
limits(el, n) ==
    LET period_remaining == PeriodTicks - el
        reset == period_remaining <= 0
        count == (IF reset THEN 0 ELSE n) + 1
    IN  [elapsed |-> IF reset THEN 0 ELSE el,
         num_calls |-> count,
         raised |-> count > MAX_CALLS,
         period_remaining |-> period_remaining]

\* (mutant) no sleep_and_retry: RateLimitException reaches the caller
sleep_and_retry_missing(try) ==
    IF try.raised
       THEN [lpc |-> "failed", sleep_left |-> 0, quota_error |-> TRUE]
       ELSE [lpc |-> "requesting", sleep_left |-> 0, quota_error |-> FALSE]

\* one pass through the loop of sleep_and_retry
sleep_and_retry(try) ==
    IF try.raised
       THEN [lpc |-> "sleeping", sleep_left |-> try.period_remaining,
             quota_error |-> FALSE]
       ELSE [lpc |-> "requesting", sleep_left |-> 0, quota_error |-> FALSE]

\* issued[a]: the requests issued a ticks ago, for the ticks of one period
Ages == 0..(PeriodTicks - 1)

InitLimit ==
    /\ elapsed = 0 /\ num_calls = 0
    /\ lpc = "idle" /\ sleep_left = 0
    /\ issued = [a \in Ages |-> 0]
    /\ retried = FALSE /\ quota_error = FALSE
    /\ IdleInterlace /\ IdleFetch /\ IdleSerp /\ IdleLlm

\* the wrapped function is called once: admitted, or put to sleep
Attempt ==
    LET try == limits(elapsed, num_calls)
        next == sleep_and_retry(try)
    IN  /\ elapsed' = try.elapsed
        /\ num_calls' = try.num_calls
        /\ lpc' = next.lpc
        /\ sleep_left' = next.sleep_left
        /\ quota_error' = next.quota_error
        /\ issued' = IF next.lpc = "requesting"
                        THEN [issued EXCEPT ![0] = @ + 1] ELSE issued

\* fetch_serper is invoked
Call ==
    /\ lpc = "idle"
    /\ retried' = FALSE
    /\ Attempt
    /\ UNCHANGED <<ivars, fvars, svars, mvars>>

\* time.sleep(period_remaining) is over: the loop calls again
Wake ==
    /\ lpc = "sleeping"
    /\ sleep_left = 0
    /\ retried' = TRUE
    /\ Attempt
    /\ UNCHANGED <<ivars, fvars, svars, mvars>>

\* the request ends, well or with an exception, and fetch_serper with it
Complete ==
    /\ lpc = "requesting"
    /\ lpc' = "idle"
    /\ UNCHANGED <<elapsed, num_calls, sleep_left, issued, retried,
                   quota_error, ivars, fvars, svars, mvars>>

\* one tick of time passes
Tick ==
    /\ elapsed' = Min(elapsed + 1, PeriodTicks)
    /\ sleep_left' = Max(sleep_left - 1, 0)
    /\ issued' = [a \in Ages |-> IF a = 0 THEN 0 ELSE issued[a - 1]]
    /\ UNCHANGED <<num_calls, lpc, retried, quota_error,
                   ivars, fvars, svars, mvars>>

NextLimit == Call \/ Wake \/ Complete \/ Tick
\* Time passes, and a thread whose sleep is over runs.
SpecLimit ==
    InitLimit /\ [][NextLimit]_vars /\ WF_vars(Tick) /\ WF_vars(Wake)

RECURSIVE SumIssued(_)
SumIssued(a) == IF a < 0 THEN 0 ELSE issued[a] + SumIssued(a - 1)
\* the requests issued in the trailing period
IssuedInTrailingPeriod == SumIssued(PeriodTicks - 1)
\* the requests issued since the limiter's last reset
IssuedSinceReset == SumIssued(Min(elapsed, PeriodTicks - 1))

\* C7: a call over the quota is not rejected: no RateLimitException ever
\* reaches the caller, only a call over the quota is put to sleep, and a
\* call put to sleep eventually issues its request.
C7_DelayedNotRejected ==
    /\ [](~quota_error /\ lpc # "failed")
    /\ [](lpc = "sleeping" => num_calls = MAX_CALLS + 1)
    /\ (lpc = "sleeping") ~> (lpc = "requesting" /\ retried)
C7_Witness ==
    /\ lpc = "requesting" /\ retried
    /\ num_calls = 1

-----------------------------------------------------------------------------
(* SpecLlm: call_llm, called a few times in a row.                         *)

\* The schema argument: None, an empty mapping, a mapping with keys.
Schemas ==
    { [is_none |-> TRUE, keys |-> {}],
      [is_none |-> FALSE, keys |-> {}],
      [is_none |-> FALSE, keys |-> {"type", "properties", "required"}] }

\* bool(schema): None and the empty mapping are false
Truthy(sch) == ~sch.is_none /\ sch.keys # {}

\* "response_format": {"type": "json_schema", ...} if schema else {"type": "text"}
response_format(sch) == IF Truthy(sch) THEN "json_schema" ELSE "text"

\* Python values: a str, or what json.loads builds
Str(text) == [type |-> "str", text |-> text]
\* call_llm raises
LlmRaises(kind) == [is_exception |-> TRUE, value |-> Str(""), error |-> kind]

\* Message contents the model may answer with: a JSON object, a JSON
\* string, a JSON array, and text that is not JSON.
Contents ==
    { "{\"capital\": \"Paris\"}", "\"Paris\"", "[1, 2]", "Paris is the capital" }

\* json.loads(content)
json_loads(text) ==
    CASE text = "{\"capital\": \"Paris\"}" ->
             Returns([type |-> "dict", text |-> "capital: Paris"])
      [] text = "\"Paris\"" -> Returns(Str("Paris"))
      [] text = "[1, 2]" -> Returns([type |-> "list", text |-> "1, 2"])
      [] OTHER -> LlmRaises("JSONDecodeError")

\* the end of call_llm, given the response
call_llm_return(sch, ok, text) ==
    IF ~ok THEN LlmRaises("HTTPError")
    ELSE IF ~sch.is_none THEN json_loads(text)
    ELSE Returns(Str(text))

InitLlm ==
    /\ schema = [is_none |-> TRUE, keys |-> {}] /\ content = ""
    /\ http_ok = TRUE /\ payload_format = ""
    /\ returned = Returns(Str(""))
    /\ mpc = "idle" /\ ncalls = 0
    /\ IdleInterlace /\ IdleFetch /\ IdleSerp /\ IdleLimit

\* call_llm builds the payload and posts it
Post ==
    /\ mpc \in {"idle", "returned"}
    /\ ncalls < MaxLlmCalls
    /\ \E sch \in Schemas :
          /\ schema' = sch
          /\ payload_format' = response_format(sch)
    /\ ncalls' = ncalls + 1
    /\ mpc' = "posted"
    /\ UNCHANGED <<content, http_ok, returned, ivars, fvars, svars, lvars>>

\* the response arrives; call_llm returns or raises
Respond ==
    /\ mpc = "posted"
    /\ \E ok \in BOOLEAN, text \in Contents :
          /\ http_ok' = ok
          /\ content' = text
          /\ returned' = call_llm_return(schema, ok, text)
    /\ mpc' = "returned"
    /\ UNCHANGED <<schema, payload_format, ncalls, ivars, fvars, svars, lvars>>

NextLlm == Post \/ Respond
SpecLlm == InitLlm /\ [][NextLlm]_vars

\* C8: call_llm parses the content as JSON exactly when the request went
\* out in json_schema mode; a request that went out in text mode gets the
\* raw content back, unparsed, whatever the schema argument was.
C8_ParsedIffSchemaMode ==
    (mpc = "returned" /\ http_ok) =>
        /\ payload_format = "json_schema" => returned = json_loads(content)
        /\ payload_format = "text" => returned = Returns(Str(content))

=============================================================================
